---- MODULE Spec2Model ----
(***************************************************************************)
(* In-memory e-commerce service (src/main.py): product catalogue, one cart *)
(* and the cart-to-order checkout.  The three module-level lists are the   *)
(* store; every HTTP handler is one atomic step (the handlers are async    *)
(* functions without any await, so the event loop never interleaves them). *)
(* Spec serves each request in the step it arrives in; SpecConc lets        *)
(* requests arrive and wait as tasks of the event loop before they run.     *)
(*                                                                         *)
(* Money: precio and total are Python floats with (in the catalogue) at    *)
(* most three decimals.  They are modelled as integers counting thousandths *)
(* (1200.00 is 1200000), so that round(total, 2) is a real rounding to a   *)
(* multiple of 10 and not the identity.                                    *)
(***************************************************************************)
EXTENDS Integers, Sequences, FiniteSets, TLC

VARIABLES db_productos, db_carritos, db_pedidos, req, resp, pre, nreq, tareas

vars == <<db_productos, db_carritos, db_pedidos, req, resp, pre, nreq, tareas>>

(* ---------------------------------------------------------------------- *)
(* Bounds and request inputs                                              *)
(* ---------------------------------------------------------------------- *)

\* number of requests served in one behaviour
MaxRequests == 4

\* number of requests that arrive in one behaviour of SpecConc
MaxTareas == 3

\* product ids a request may name: 1 and 2 are in the initial catalogue, 4 is
\* fresh; product 3 is in the catalogue and is never named
ProductoIds == {1, 2, 4}

\* cart ids a request may name: cart 1 exists, cart 2 never does
CarritoIds == {1, 2}

\* the integer "cantidad" of a request body / query parameter (any int is
\* accepted by the pydantic models: negative, zero, within and above stock)
Cantidades == {-1, 0, 6, 11}

\* bodies of POST /productos: an id of the catalogue (conflict) or a fresh
\* one, with a price (2.996) that does not fall on a whole cent
NuevosProductos ==
    { [id |-> i, nombre |-> "Nuevo", precio |-> 2996, stock |-> 7] : i \in {1, 4} }

\* the value of Optional[...] when nothing is found
None == [none |-> TRUE]

(* ---------------------------------------------------------------------- *)
(* Sequence helpers                                                       *)
(* ---------------------------------------------------------------------- *)

\* sum(s)
RECURSIVE SumSeq(_)
SumSeq(s) == IF s = <<>> THEN 0 ELSE Head(s) + SumSeq(Tail(s))

\* Round2 with the digits after the second decimal cut off instead of rounded
Round2_truncado(x) == x - (x % 10)

\* round(x, 2) on thousandths: nearest multiple of 10, ties to even
Round2(x) ==
    LET r    == x % 10
        base == x - r
    IN  IF r < 5 THEN base
        ELSE IF r > 5 THEN base + 10
        ELSE IF (base \div 10) % 2 = 0 THEN base ELSE base + 10

(* ---------------------------------------------------------------------- *)
(* Pure functions of src/main.py                                          *)
(* ---------------------------------------------------------------------- *)

fn_buscar_producto(lista_productos, id_producto) ==
    LET encontrados == SelectSeq(lista_productos, LAMBDA p : p.id = id_producto)
    IN  IF encontrados # <<>> THEN encontrados[1] ELSE None

\* fn_actualizar_stock without the test on the product id
fn_actualizar_stock_sin_filtro(lista_productos, id_producto, cantidad_a_restar) ==
    [k \in 1..Len(lista_productos) |->
        [lista_productos[k] EXCEPT !.stock = @ - cantidad_a_restar]]

fn_actualizar_stock(lista_productos, id_producto, cantidad_a_restar) ==
    [k \in 1..Len(lista_productos) |->
        IF lista_productos[k].id # id_producto
        THEN lista_productos[k]
        ELSE [lista_productos[k] EXCEPT !.stock = @ - cantidad_a_restar]]

fn_agregar_producto(lista_productos, producto_nuevo) ==
    lista_productos \o <<producto_nuevo>>

fn_buscar_carrito(lista_carritos, carrito_id) ==
    LET encontrados == SelectSeq(lista_carritos, LAMBDA c : c.id = carrito_id)
    IN  IF encontrados # <<>> THEN encontrados[1] ELSE None

fn_recalcular_total(carrito, lista_productos) ==
    LET obtener_precio(item) ==
            LET producto == fn_buscar_producto(lista_productos, item.producto_id)
            IN  IF producto # None THEN producto.precio * item.cantidad ELSE 0
        subtotales == [k \in 1..Len(carrito.items) |-> obtener_precio(carrito.items[k])]
        total == SumSeq(subtotales)
    IN  Round2(total)

\* fn_agregar_item_al_carrito that takes the merged entry out of its place
\* and puts it at the end
fn_agregar_item_al_carrito_al_final(carrito, item_nuevo, lista_productos) ==
    LET otros == SelectSeq(carrito.items,
                     LAMBDA item : item.producto_id # item_nuevo.producto_id)
        nueva_lista_items ==
            otros \o <<[item_nuevo EXCEPT !.cantidad =
                          @ + SumSeq([k \in 1..Len(carrito.items) |->
                                 IF carrito.items[k].producto_id = item_nuevo.producto_id
                                 THEN carrito.items[k].cantidad ELSE 0])]>>
        carrito_con_items_actualizados == [carrito EXCEPT !.items = nueva_lista_items]
        nuevo_total == fn_recalcular_total(carrito_con_items_actualizados, lista_productos)
    IN  [carrito_con_items_actualizados EXCEPT !.total = nuevo_total]

\* fn_agregar_item_al_carrito that recomputes the total only when it appends
\* and keeps the cached one when it merges
fn_agregar_item_al_carrito_total_viejo(carrito, item_nuevo, lista_productos) ==
    LET coincidentes == SelectSeq(carrito.items,
                            LAMBDA item : item.producto_id = item_nuevo.producto_id)
        nueva_lista_items ==
            IF coincidentes # <<>>
            THEN [k \in 1..Len(carrito.items) |->
                    IF carrito.items[k].producto_id = item_nuevo.producto_id
                    THEN [carrito.items[k] EXCEPT !.cantidad = @ + item_nuevo.cantidad]
                    ELSE carrito.items[k]]
            ELSE carrito.items \o <<item_nuevo>>
        carrito_con_items_actualizados == [carrito EXCEPT !.items = nueva_lista_items]
        nuevo_total ==
            IF coincidentes # <<>>
            THEN carrito.total
            ELSE fn_recalcular_total(carrito_con_items_actualizados, lista_productos)
    IN  [carrito_con_items_actualizados EXCEPT !.total = nuevo_total]

\* fn_agregar_item_al_carrito that always appends the new item
fn_agregar_item_al_carrito_sin_fusion(carrito, item_nuevo, lista_productos) ==
    LET nueva_lista_items == carrito.items \o <<item_nuevo>>
        carrito_con_items_actualizados == [carrito EXCEPT !.items = nueva_lista_items]
        nuevo_total == fn_recalcular_total(carrito_con_items_actualizados, lista_productos)
    IN  [carrito_con_items_actualizados EXCEPT !.total = nuevo_total]

fn_agregar_item_al_carrito(carrito, item_nuevo, lista_productos) ==
    LET coincidentes == SelectSeq(carrito.items,
                            LAMBDA item : item.producto_id = item_nuevo.producto_id)
        item_existente == IF coincidentes # <<>> THEN coincidentes[1] ELSE None
        nueva_lista_items ==
            IF item_existente # None
            THEN [k \in 1..Len(carrito.items) |->
                    IF carrito.items[k].producto_id = item_nuevo.producto_id
                    THEN [carrito.items[k] EXCEPT !.cantidad = @ + item_nuevo.cantidad]
                    ELSE carrito.items[k]]
            ELSE carrito.items \o <<item_nuevo>>
        carrito_con_items_actualizados == [carrito EXCEPT !.items = nueva_lista_items]
        nuevo_total == fn_recalcular_total(carrito_con_items_actualizados, lista_productos)
    IN  [carrito_con_items_actualizados EXCEPT !.total = nuevo_total]

\* fn_actualizar_carrito_en_db that filters the updated cart out and never
\* puts the new value in
fn_actualizar_carrito_en_db_pierde(lista_carritos, carrito_actualizado) ==
    SelectSeq(lista_carritos, LAMBDA c : c.id # carrito_actualizado.id)

fn_actualizar_carrito_en_db(lista_carritos, carrito_actualizado) ==
    [k \in 1..Len(lista_carritos) |->
        IF lista_carritos[k].id = carrito_actualizado.id
        THEN carrito_actualizado
        ELSE lista_carritos[k]]

\* fn_limpiar_carrito that resets the total and keeps the items
fn_limpiar_carrito_solo_total(carrito) ==
    [carrito EXCEPT !.total = 0]

fn_limpiar_carrito(carrito) ==
    [carrito EXCEPT !.items = <<>>, !.total = 0]

\* the loop of fn_convertir_carrito_a_pedido: items whose product is not
\* found are skipped
RECURSIVE items_pedido(_, _)
items_pedido(items, lista_productos) ==
    IF items = <<>> THEN <<>>
    ELSE LET item_c   == Head(items)
             producto == fn_buscar_producto(lista_productos, item_c.producto_id)
             resto    == items_pedido(Tail(items), lista_productos)
         IN  IF producto # None
             THEN <<[producto_id      |-> item_c.producto_id,
                     cantidad         |-> item_c.cantidad,
                     precio_congelado |-> producto.precio]>> \o resto
             ELSE resto

\* fn_convertir_carrito_a_pedido that gives every order the id 1
fn_convertir_carrito_a_pedido_id_fijo(carrito, lista_productos, nuevo_id_pedido, ahora) ==
    [id           |-> 1,
     items        |-> items_pedido(carrito.items, lista_productos),
     total_pedido |-> carrito.total,
     fecha        |-> ahora,
     estado       |-> "Pendiente"]

\* fn_convertir_carrito_a_pedido that freezes the line subtotal in place of
\* the unit price
fn_convertir_carrito_a_pedido_subtotal(carrito, lista_productos, nuevo_id_pedido, ahora) ==
    LET items == items_pedido(carrito.items, lista_productos)
    IN  [id           |-> nuevo_id_pedido,
         items        |-> [k \in 1..Len(items) |->
                             [items[k] EXCEPT !.precio_congelado = @ * items[k].cantidad]],
         total_pedido |-> carrito.total,
         fecha        |-> ahora,
         estado       |-> "Pendiente"]

fn_convertir_carrito_a_pedido(carrito, lista_productos, nuevo_id_pedido, ahora) ==
    [id           |-> nuevo_id_pedido,
     items        |-> items_pedido(carrito.items, lista_productos),
     total_pedido |-> carrito.total,
     fecha        |-> ahora,
     estado       |-> "Pendiente"]

\* functools.reduce(reducer, carrito.items, lista_productos)
RECURSIVE reduce_stock(_, _)
reduce_stock(items, productos_acumulados) ==
    IF items = <<>> THEN productos_acumulados
    ELSE reduce_stock(Tail(items),
                      fn_actualizar_stock(productos_acumulados,
                                          Head(items).producto_id,
                                          Head(items).cantidad))

fn_descontar_stock_de_pedido(lista_productos, carrito) ==
    reduce_stock(carrito.items, lista_productos)

\* fn_agregar_pedido_a_db that puts the new order first
fn_agregar_pedido_a_db_al_inicio(lista_pedidos, pedido) ==
    <<pedido>> \o lista_pedidos

fn_agregar_pedido_a_db(lista_pedidos, pedido) ==
    lista_pedidos \o <<pedido>>

(* ---------------------------------------------------------------------- *)
(* State                                                                  *)
(* ---------------------------------------------------------------------- *)

\* the store as one value, for the snapshot taken when a request arrives
Store == [productos |-> db_productos, carritos |-> db_carritos, pedidos |-> db_pedidos]

\* the three lists as the module creates them
StoreInicial ==
    [productos |-> <<
          [id |-> 1, nombre |-> "Laptop Gamer",     precio |-> 1200000, stock |-> 10],
          [id |-> 2, nombre |-> "Teclado Mecánico", precio |-> 150000,  stock |-> 25],
          [id |-> 3, nombre |-> "Mouse Óptico",     precio |-> 45500,   stock |-> 50] >>,
     carritos  |-> << [id |-> 1, items |-> <<>>, total |-> 0] >>,
     pedidos   |-> <<>>]

Init ==
    /\ db_productos = StoreInicial.productos
    /\ db_carritos = StoreInicial.carritos
    /\ db_pedidos = StoreInicial.pedidos
    /\ req = [op |-> "none"]
    /\ resp = [status |-> 0, detail |-> ""]
    /\ pre = Store
    /\ nreq = 0
    /\ tareas = <<>>

\* the waiting task (the first one, if several carry the same request) that
\* the event loop runs for this request is done: it has its response and
\* its place in the order of execution; a request served as it arrives has
\* no task
Atender(lista_tareas, request, respuesta, orden) ==
    LET esperan == {t \in 1..Len(lista_tareas) :
                       /\ lista_tareas[t].estado = "pendiente"
                       /\ lista_tareas[t].request = request}
    IN  IF esperan = {} THEN lista_tareas
        ELSE LET t == CHOOSE x \in esperan : \A y \in esperan : x <= y
             IN  [lista_tareas EXCEPT ![t].estado = "hecho",
                                      ![t].resp   = respuesta,
                                      ![t].orden  = orden]

\* bookkeeping common to every handler: the request, the response, the
\* store as the request found it, the number of requests served
Served(request, status, detail) ==
    /\ nreq < MaxRequests
    /\ nreq' = nreq + 1
    /\ req' = request
    /\ resp' = [status |-> status, detail |-> detail]
    /\ pre' = Store
    /\ tareas' = Atender(tareas, request, [status |-> status, detail |-> detail], nreq + 1)

(* ---------------------------------------------------------------------- *)
(* Handlers                                                               *)
(* ---------------------------------------------------------------------- *)

\* GET /productos
obtener_todos_los_productos ==
    /\ Served([op |-> "obtener_todos_los_productos"], 200, "")
    /\ UNCHANGED <<db_productos, db_carritos, db_pedidos>>

\* GET /productos/{producto_id}
obtener_producto_por_id ==
    \E producto_id \in ProductoIds :
        LET producto == fn_buscar_producto(db_productos, producto_id)
            request  == [op |-> "obtener_producto_por_id", producto_id |-> producto_id]
        IN  /\ IF producto = None
               THEN Served(request, 404, "Producto no encontrado")
               ELSE Served(request, 200, "")
            /\ UNCHANGED <<db_productos, db_carritos, db_pedidos>>

\* crear_nuevo_producto without the test for an id already present
crear_nuevo_producto_sin_conflicto ==
    \E producto \in NuevosProductos :
        LET request == [op |-> "crear_nuevo_producto", producto |-> producto]
        IN  /\ db_productos' = fn_agregar_producto(db_productos, producto)
            /\ Served(request, 201, "")
            /\ UNCHANGED <<db_carritos, db_pedidos>>

\* POST /productos
crear_nuevo_producto ==
    \E producto \in NuevosProductos :
        LET request == [op |-> "crear_nuevo_producto", producto |-> producto]
        IN  IF fn_buscar_producto(db_productos, producto.id) # None
            THEN /\ Served(request, 400, "ID de producto ya existe")
                 /\ UNCHANGED <<db_productos, db_carritos, db_pedidos>>
            ELSE /\ db_productos' = fn_agregar_producto(db_productos, producto)
                 /\ Served(request, 201, "")
                 /\ UNCHANGED <<db_carritos, db_pedidos>>

\* descontar_stock_de_producto without the comparison of stock and cantidad
descontar_stock_de_producto_sin_validar ==
    \E producto_id \in ProductoIds, cantidad \in Cantidades :
        LET producto == fn_buscar_producto(db_productos, producto_id)
            request  == [op |-> "descontar_stock_de_producto",
                         producto_id |-> producto_id, cantidad |-> cantidad]
        IN  IF producto = None
            THEN /\ Served(request, 404, "Producto no encontrado")
                 /\ UNCHANGED <<db_productos, db_carritos, db_pedidos>>
            ELSE /\ db_productos' = fn_actualizar_stock(db_productos, producto_id, cantidad)
                 /\ Served(request, 200, "")
                 /\ UNCHANGED <<db_carritos, db_pedidos>>

\* PUT /productos/{producto_id}/descontar-stock
descontar_stock_de_producto ==
    \E producto_id \in ProductoIds, cantidad \in Cantidades :
        LET producto == fn_buscar_producto(db_productos, producto_id)
            request  == [op |-> "descontar_stock_de_producto",
                         producto_id |-> producto_id, cantidad |-> cantidad]
        IN  IF producto = None
            THEN /\ Served(request, 404, "Producto no encontrado")
                 /\ UNCHANGED <<db_productos, db_carritos, db_pedidos>>
            ELSE IF producto.stock < cantidad
            THEN /\ Served(request, 400, "Stock insuficiente")
                 /\ UNCHANGED <<db_productos, db_carritos, db_pedidos>>
            ELSE /\ db_productos' = fn_actualizar_stock(db_productos, producto_id, cantidad)
                 /\ Served(request, 200, "")
                 /\ UNCHANGED <<db_carritos, db_pedidos>>

\* GET /carrito/{carrito_id}
obtener_carrito ==
    \E carrito_id \in CarritoIds :
        LET carrito == fn_buscar_carrito(db_carritos, carrito_id)
            request == [op |-> "obtener_carrito", carrito_id |-> carrito_id]
        IN  /\ IF carrito = None
               THEN Served(request, 404, "Carrito no encontrado")
               ELSE Served(request, 200, "")
            /\ UNCHANGED <<db_productos, db_carritos, db_pedidos>>

\* agregar_item_al_carrito that also takes the quantity off the stock when the
\* item enters the cart
agregar_item_al_carrito_reserva_stock ==
    \E carrito_id \in CarritoIds, producto_id \in ProductoIds, cantidad \in Cantidades :
        LET item           == [producto_id |-> producto_id, cantidad |-> cantidad]
            request        == [op |-> "agregar_item_al_carrito",
                               carrito_id |-> carrito_id, item |-> item]
            carrito_actual == fn_buscar_carrito(db_carritos, carrito_id)
            producto       == fn_buscar_producto(db_productos, producto_id)
        IN  IF carrito_actual = None
            THEN /\ Served(request, 404, "Carrito no encontrado")
                 /\ UNCHANGED <<db_productos, db_carritos, db_pedidos>>
            ELSE IF producto = None
            THEN /\ Served(request, 404, "Producto no encontrado")
                 /\ UNCHANGED <<db_productos, db_carritos, db_pedidos>>
            ELSE IF producto.stock < cantidad
            THEN /\ Served(request, 400, "Stock insuficiente")
                 /\ UNCHANGED <<db_productos, db_carritos, db_pedidos>>
            ELSE LET carrito_actualizado ==
                        fn_agregar_item_al_carrito(carrito_actual, item, db_productos)
                 IN  /\ db_carritos' = fn_actualizar_carrito_en_db(db_carritos,
                                                                   carrito_actualizado)
                     /\ db_productos' = fn_actualizar_stock(db_productos,
                                                            producto_id, cantidad)
                     /\ Served(request, 200, "")
                     /\ UNCHANGED db_pedidos

\* agregar_item_al_carrito without the stock validation
agregar_item_al_carrito_sin_validar_stock ==
    \E carrito_id \in CarritoIds, producto_id \in ProductoIds, cantidad \in Cantidades :
        LET item           == [producto_id |-> producto_id, cantidad |-> cantidad]
            request        == [op |-> "agregar_item_al_carrito",
                               carrito_id |-> carrito_id, item |-> item]
            carrito_actual == fn_buscar_carrito(db_carritos, carrito_id)
            producto       == fn_buscar_producto(db_productos, producto_id)
        IN  IF carrito_actual = None
            THEN /\ Served(request, 404, "Carrito no encontrado")
                 /\ UNCHANGED <<db_productos, db_carritos, db_pedidos>>
            ELSE IF producto = None
            THEN /\ Served(request, 404, "Producto no encontrado")
                 /\ UNCHANGED <<db_productos, db_carritos, db_pedidos>>
            ELSE LET carrito_actualizado ==
                        fn_agregar_item_al_carrito(carrito_actual, item, db_productos)
                 IN  /\ db_carritos' = fn_actualizar_carrito_en_db(db_carritos,
                                                                   carrito_actualizado)
                     /\ Served(request, 200, "")
                     /\ UNCHANGED <<db_productos, db_pedidos>>

\* POST /carrito/{carrito_id}/agregar
agregar_item_al_carrito ==
    \E carrito_id \in CarritoIds, producto_id \in ProductoIds, cantidad \in Cantidades :
        LET item           == [producto_id |-> producto_id, cantidad |-> cantidad]
            request        == [op |-> "agregar_item_al_carrito",
                               carrito_id |-> carrito_id, item |-> item]
            carrito_actual == fn_buscar_carrito(db_carritos, carrito_id)
            producto       == fn_buscar_producto(db_productos, producto_id)
        IN  IF carrito_actual = None
            THEN /\ Served(request, 404, "Carrito no encontrado")
                 /\ UNCHANGED <<db_productos, db_carritos, db_pedidos>>
            ELSE IF producto = None
            THEN /\ Served(request, 404, "Producto no encontrado")
                 /\ UNCHANGED <<db_productos, db_carritos, db_pedidos>>
            ELSE IF producto.stock < cantidad
            THEN /\ Served(request, 400, "Stock insuficiente")
                 /\ UNCHANGED <<db_productos, db_carritos, db_pedidos>>
            ELSE LET carrito_actualizado ==
                        fn_agregar_item_al_carrito(carrito_actual, item, db_productos)
                 IN  /\ db_carritos' = fn_actualizar_carrito_en_db(db_carritos,
                                                                   carrito_actualizado)
                     /\ Served(request, 200, "")
                     /\ UNCHANGED <<db_productos, db_pedidos>>

\* GET /pedidos
obtener_todos_los_pedidos ==
    /\ Served([op |-> "obtener_todos_los_pedidos"], 200, "")
    /\ UNCHANGED <<db_productos, db_carritos, db_pedidos>>

\* procesar_checkout_carrito without the test for an empty cart
procesar_checkout_carrito_sin_vacio ==
    \E carrito_id \in CarritoIds :
        LET request == [op |-> "procesar_checkout_carrito", carrito_id |-> carrito_id]
            carrito == fn_buscar_carrito(db_carritos, carrito_id)
        IN  IF carrito = None
            THEN /\ Served(request, 404, "Carrito no encontrado")
                 /\ UNCHANGED <<db_productos, db_carritos, db_pedidos>>
            ELSE LET nueva_lista_productos ==
                        fn_descontar_stock_de_pedido(db_productos, carrito)
                     nuevo_id == Len(db_pedidos) + 1
                     nuevo_pedido ==
                        fn_convertir_carrito_a_pedido(carrito, db_productos, nuevo_id, nreq)
                     nueva_lista_pedidos == fn_agregar_pedido_a_db(db_pedidos, nuevo_pedido)
                     carrito_limpiado == fn_limpiar_carrito(carrito)
                     nueva_lista_carritos ==
                        fn_actualizar_carrito_en_db(db_carritos, carrito_limpiado)
                 IN  /\ db_productos' = nueva_lista_productos
                     /\ db_pedidos' = nueva_lista_pedidos
                     /\ db_carritos' = nueva_lista_carritos
                     /\ Served(request, 200, "")

\* POST /carrito/{carrito_id}/checkout
\* datetime.now() is read off the request counter, the only clock here
procesar_checkout_carrito ==
    \E carrito_id \in CarritoIds :
        LET request == [op |-> "procesar_checkout_carrito", carrito_id |-> carrito_id]
            carrito == fn_buscar_carrito(db_carritos, carrito_id)
        IN  IF carrito = None
            THEN /\ Served(request, 404, "Carrito no encontrado")
                 /\ UNCHANGED <<db_productos, db_carritos, db_pedidos>>
            ELSE IF carrito.items = <<>>
            THEN /\ Served(request, 400, "El carrito está vacío")
                 /\ UNCHANGED <<db_productos, db_carritos, db_pedidos>>
            ELSE LET nueva_lista_productos ==
                        fn_descontar_stock_de_pedido(db_productos, carrito)
                     nuevo_id == Len(db_pedidos) + 1
                     nuevo_pedido ==
                        fn_convertir_carrito_a_pedido(carrito, db_productos, nuevo_id, nreq)
                     nueva_lista_pedidos == fn_agregar_pedido_a_db(db_pedidos, nuevo_pedido)
                     carrito_limpiado == fn_limpiar_carrito(carrito)
                     nueva_lista_carritos ==
                        fn_actualizar_carrito_en_db(db_carritos, carrito_limpiado)
                 IN  /\ db_productos' = nueva_lista_productos
                     /\ db_pedidos' = nueva_lista_pedidos
                     /\ db_carritos' = nueva_lista_carritos
                     /\ Served(request, 200, "")

Next ==
    \/ obtener_todos_los_productos
    \/ obtener_producto_por_id
    \/ crear_nuevo_producto
    \/ descontar_stock_de_producto
    \/ obtener_carrito
    \/ agregar_item_al_carrito
    \/ obtener_todos_los_pedidos
    \/ procesar_checkout_carrito

Spec == Init /\ [][Next]_vars

(* ---------------------------------------------------------------------- *)
(* Concurrently arriving requests                                         *)
(* ---------------------------------------------------------------------- *)

\* the requests that arrive in SpecConc: the four writing routes
PeticionesConc ==
    { [op |-> "procesar_checkout_carrito", carrito_id |-> 1],
      [op |-> "agregar_item_al_carrito", carrito_id |-> 1,
       item |-> [producto_id |-> 1, cantidad |-> 6]],
      [op |-> "agregar_item_al_carrito", carrito_id |-> 1,
       item |-> [producto_id |-> 2, cantidad |-> 11]],
      [op |-> "descontar_stock_de_producto", producto_id |-> 1, cantidad |-> 6],
      [op |-> "crear_nuevo_producto",
       producto |-> [id |-> 4, nombre |-> "Nuevo", precio |-> 2996, stock |-> 7]] }

\* a request arrives: the server makes it a task of the event loop, which
\* has served nreq requests so far
Llegar ==
    \E request \in PeticionesConc :
        /\ Len(tareas) < MaxTareas
        /\ tareas' = Append(tareas, [request |-> request,
                                     estado  |-> "pendiente",
                                     resp    |-> [status |-> 0, detail |-> ""],
                                     llegada |-> nreq,
                                     orden   |-> 0,
                                     visto   |-> None])
        /\ UNCHANGED <<db_productos, db_carritos, db_pedidos, req, resp, pre, nreq>>

\* the request the handler has just served is the one of a waiting task
DeUnaTarea ==
    \E t \in 1..Len(tareas) :
        tareas[t].estado = "pendiente" /\ tareas[t].request = req'

\* Ejecutar with a checkout that awaits between reading the store and
\* committing: the task keeps what it read and other tasks run meanwhile
Ejecutar_con_espera ==
    \/ crear_nuevo_producto /\ DeUnaTarea
    \/ descontar_stock_de_producto /\ DeUnaTarea
    \/ agregar_item_al_carrito /\ DeUnaTarea
    \/ \E t \in 1..Len(tareas) :
          /\ tareas[t].estado = "pendiente"
          /\ tareas[t].request.op = "procesar_checkout_carrito"
          /\ tareas' = [tareas EXCEPT ![t].estado = "esperando", ![t].visto = Store]
          /\ UNCHANGED <<db_productos, db_carritos, db_pedidos, req, resp, pre, nreq>>
    \/ \E t \in 1..Len(tareas) :
          /\ tareas[t].estado = "esperando"
          /\ nreq < MaxRequests
          /\ LET visto   == tareas[t].visto
                 carrito == fn_buscar_carrito(visto.carritos, tareas[t].request.carrito_id)
                 falla(status, detail) ==
                    /\ resp' = [status |-> status, detail |-> detail]
                    /\ UNCHANGED <<db_productos, db_carritos, db_pedidos>>
             IN  /\ IF carrito = None THEN falla(404, "Carrito no encontrado")
                    ELSE IF carrito.items = <<>> THEN falla(400, "El carrito está vacío")
                    ELSE /\ db_productos' =
                               fn_descontar_stock_de_pedido(visto.productos, carrito)
                         /\ db_pedidos' =
                               fn_agregar_pedido_a_db(visto.pedidos,
                                   fn_convertir_carrito_a_pedido(carrito, visto.productos,
                                       Len(visto.pedidos) + 1, nreq))
                         /\ db_carritos' =
                               fn_actualizar_carrito_en_db(visto.carritos,
                                                           fn_limpiar_carrito(carrito))
                         /\ resp' = [status |-> 200, detail |-> ""]
                 /\ req' = tareas[t].request
                 /\ pre' = Store
                 /\ nreq' = nreq + 1
                 /\ tareas' = [tareas EXCEPT ![t].estado = "hecho",
                                             ![t].resp   = resp',
                                             ![t].orden  = nreq + 1]

\* the event loop runs one waiting task: the handler of its request, from
\* its first line to its return (no handler has an await)
Ejecutar ==
    \/ crear_nuevo_producto /\ DeUnaTarea
    \/ descontar_stock_de_producto /\ DeUnaTarea
    \/ agregar_item_al_carrito /\ DeUnaTarea
    \/ procesar_checkout_carrito /\ DeUnaTarea

NextConc ==
    \/ Llegar
    \/ Ejecutar

SpecConc == Init /\ [][NextConc]_vars

(* ---------------------------------------------------------------------- *)
(* Vocabulary of the properties                                           *)
(* ---------------------------------------------------------------------- *)

EsCheckout == req.op = "procesar_checkout_carrito"
CheckoutOk == EsCheckout /\ resp.status = 200
EsAgregar  == req.op = "agregar_item_al_carrito"
AgregarOk  == EsAgregar /\ resp.status = 200

\* the request changed nothing in the store
SinCambios == Store = pre

ExisteProducto(productos, id) == \E k \in 1..Len(productos) : productos[k].id = id
ExisteCarrito(carritos, id)   == \E k \in 1..Len(carritos) : carritos[k].id = id

ProductoPorId(productos, id) ==
    productos[CHOOSE k \in 1..Len(productos) : productos[k].id = id]
CarritoPorId(carritos, id) ==
    carritos[CHOOSE k \in 1..Len(carritos) : carritos[k].id = id]

\* price of a product, 0 when the catalogue does not have it
PrecioDe(productos, id) ==
    IF ExisteProducto(productos, id) THEN ProductoPorId(productos, id).precio ELSE 0

\* total quantity the items ask of product id
CantidadPedida(items, id) ==
    SumSeq([k \in 1..Len(items) |->
              IF items[k].producto_id = id THEN items[k].cantidad ELSE 0])

\* sum of price * quantity over the items, not rounded
TotalExacto(items, productos) ==
    SumSeq([k \in 1..Len(items) |->
              PrecioDe(productos, items[k].producto_id) * items[k].cantidad])

\* t is x rounded to 2 decimals: a whole number of cents nearest to x
EsRedondeoA2(t, x) == t % 10 = 0 /\ t - x <= 5 /\ x - t <= 5

\* the cart a cart request named, before and after the request
CarritoAntes   == CarritoPorId(pre.carritos, req.carrito_id)
CarritoDespues == CarritoPorId(db_carritos, req.carrito_id)

\* despues is antes with every stock reduced by what the items ask of it
StockDescontado(antes, despues, items) ==
    /\ Len(despues) = Len(antes)
    /\ \A k \in 1..Len(antes) :
          /\ despues[k].stock = antes[k].stock - CantidadPedida(items, antes[k].id)
          /\ despues[k].id = antes[k].id
          /\ despues[k].nombre = antes[k].nombre
          /\ despues[k].precio = antes[k].precio

(* ---------------------------------------------------------------------- *)
(* Properties                                                             *)
(* ---------------------------------------------------------------------- *)

\* C1: in every reachable state every product's stock is >= 0.
C1_StockNoNegativo ==
    \A k \in 1..Len(db_productos) : db_productos[k].stock >= 0

\* C2: checkout of a non-empty cart one of whose items asks for more than
\* the current stock of its product fails with Insufficient-Stock and
\* leaves products, orders and carts unchanged.
C2_CheckoutSinStockFalla ==
    ( /\ EsCheckout
      /\ ExisteCarrito(pre.carritos, req.carrito_id)
      /\ CarritoAntes.items # <<>>
      /\ \E k \in 1..Len(CarritoAntes.items) :
            LET item == CarritoAntes.items[k]
            IN  /\ ExisteProducto(pre.productos, item.producto_id)
                /\ item.cantidad > ProductoPorId(pre.productos, item.producto_id).stock )
    => ( /\ resp.status = 400
         /\ resp.detail = "Stock insuficiente"
         /\ SinCambios )

\* C3: after a successful checkout every product's stock is its stock
\* before minus the sum of the quantities of the cart's items that
\* reference it (so unreferenced products keep their stock), and no
\* product's id, name or price changes.
C3_ConservacionDeStock ==
    CheckoutOk => StockDescontado(pre.productos, db_productos, CarritoAntes.items)

C3_Witness ==
    /\ CheckoutOk
    /\ Len(CarritoAntes.items) >= 2
    /\ \E k \in 1..Len(db_productos) :
          db_productos[k].stock # pre.productos[k].stock
    /\ \E k \in 1..Len(db_productos) :
          CantidadPedida(CarritoAntes.items, db_productos[k].id) = 0

\* C4: a checkout step either succeeds, and then appends exactly one order,
\* decrements the stock for the cart's items and resets the cart to no
\* items and total 0 in that same step, or fails and changes nothing; the
\* order list grows in no other step.
C4_CheckoutAtomico ==
    /\ EsCheckout =>
          \/ /\ resp.status = 200
             /\ Len(db_pedidos) = Len(pre.pedidos) + 1
             /\ SubSeq(db_pedidos, 1, Len(pre.pedidos)) = pre.pedidos
             /\ CarritoAntes.items # <<>>
             /\ StockDescontado(pre.productos, db_productos, CarritoAntes.items)
             /\ CarritoDespues.items = <<>>
             /\ CarritoDespues.total = 0
             /\ Len(db_carritos) = Len(pre.carritos)
             /\ \A k \in 1..Len(db_carritos) :
                   db_carritos[k].id # req.carrito_id => db_carritos[k] = pre.carritos[k]
          \/ /\ resp.status # 200
             /\ SinCambios
    /\ db_pedidos # pre.pedidos => CheckoutOk

C4_Witness ==
    /\ CheckoutOk
    /\ Len(db_pedidos) = Len(pre.pedidos) + 1
    /\ CarritoAntes.total # 0
    /\ CarritoDespues.items = <<>>

\* C5: in every reachable state the stored total of every cart is the sum
\* over its items of current price * quantity, rounded to 2 decimals; the
\* total is 0 after a successful checkout.
C5_TotalDelCarrito ==
    /\ \A k \in 1..Len(db_carritos) :
          EsRedondeoA2(db_carritos[k].total,
                       TotalExacto(db_carritos[k].items, db_productos))
    /\ CheckoutOk => CarritoDespues.total = 0

C5_Witness ==
    /\ AgregarOk
    /\ Len(CarritoDespues.items) >= 2
    /\ CarritoDespues.total # TotalExacto(CarritoDespues.items, db_productos)

\* C6: every cart has at most one entry per product id; a successful
\* add-item for a product already in the cart leaves exactly one entry for
\* it, whose quantity is the old quantity plus the added one.
C6_UnaEntradaPorProducto ==
    /\ \A c \in 1..Len(db_carritos) :
          \A i, j \in 1..Len(db_carritos[c].items) :
              i # j => db_carritos[c].items[i].producto_id
                         # db_carritos[c].items[j].producto_id
    /\ ( /\ AgregarOk
         /\ \E k \in 1..Len(CarritoAntes.items) :
               CarritoAntes.items[k].producto_id = req.item.producto_id )
       => LET mismo(item) == item.producto_id = req.item.producto_id
              antes   == SelectSeq(CarritoAntes.items, mismo)
              despues == SelectSeq(CarritoDespues.items, mismo)
          IN  /\ Len(despues) = 1
              /\ despues[1].cantidad = antes[1].cantidad + req.item.cantidad

C6_Witness ==
    /\ AgregarOk
    /\ req.item.cantidad > 0
    /\ Len(CarritoAntes.items) >= 2
    /\ \E k \in 1..Len(CarritoAntes.items) :
          CarritoAntes.items[k].producto_id = req.item.producto_id

\* C7: the order a successful checkout produces has one order item per cart
\* item, in the cart's order, with the same product id and quantity and the
\* product's price at checkout time as frozen price; its total is the
\* cart's total at the moment of checkout.
C7_PedidoReflejaCarrito ==
    CheckoutOk =>
        /\ db_pedidos # <<>>
        /\ LET pedido == db_pedidos[Len(db_pedidos)]
               items  == CarritoAntes.items
           IN  /\ Len(pedido.items) = Len(items)
               /\ \A k \in 1..Len(items) :
                     /\ k <= Len(pedido.items)
                     /\ pedido.items[k].producto_id = items[k].producto_id
                     /\ pedido.items[k].cantidad = items[k].cantidad
                     /\ pedido.items[k].precio_congelado
                           = PrecioDe(pre.productos, items[k].producto_id)
               /\ pedido.total_pedido = CarritoAntes.total

C7_Witness ==
    /\ CheckoutOk
    /\ Len(db_pedidos[Len(db_pedidos)].items) >= 2
    /\ db_pedidos[Len(db_pedidos)].items[1].cantidad > 1
    /\ db_pedidos[Len(db_pedidos)].total_pedido > 0

\* C8: the order list is append-only and orders are immutable: an order in
\* the list is still there, at the same position and with the same id,
\* items, total and status, after every later request.
C8_PedidosInmutables ==
    [][ \A k \in 1..Len(db_pedidos) :
           /\ Len(db_pedidos') >= k
           /\ db_pedidos'[k] = db_pedidos[k] ]_vars

C8_Witness ==
    /\ CheckoutOk
    /\ Len(pre.pedidos) >= 1
    /\ Len(db_pedidos) = Len(pre.pedidos) + 1
    /\ db_pedidos[1] = pre.pedidos[1]

\* C9: checkout of a cart with zero items (also one just emptied by a
\* successful checkout) fails with Empty-Cart and leaves products, carts
\* and orders unchanged; no order with zero items is ever in the list.
C9_CheckoutCarritoVacio ==
    /\ ( /\ EsCheckout
         /\ ExisteCarrito(pre.carritos, req.carrito_id)
         /\ CarritoAntes.items = <<>> )
       => ( /\ resp.status = 400
            /\ resp.detail = "El carrito está vacío"
            /\ SinCambios )
    /\ \A k \in 1..Len(db_pedidos) : db_pedidos[k].items # <<>>

\* add-item, checkout, checkout: the second checkout finds the cart the
\* first one emptied
C9_Witness ==
    /\ EsCheckout
    /\ nreq = 3
    /\ Len(pre.pedidos) = 1
    /\ CarritoAntes.items = <<>>
    /\ resp.status = 400

\* C10: add-item naming an absent cart or an absent product fails with
\* Not-Found; add-item (on an existing cart and product) asking for more
\* than the product's current stock fails with Insufficient-Stock; in both
\* cases carts, products and orders are unchanged.
C10_AgregarRechazado ==
    EsAgregar =>
        /\ ( \/ ~ExisteCarrito(pre.carritos, req.carrito_id)
             \/ ~ExisteProducto(pre.productos, req.item.producto_id) )
           => (resp.status = 404 /\ SinCambios)
        /\ ( /\ ExisteCarrito(pre.carritos, req.carrito_id)
             /\ ExisteProducto(pre.productos, req.item.producto_id)
             /\ req.item.cantidad
                  > ProductoPorId(pre.productos, req.item.producto_id).stock )
           => ( /\ resp.status = 400
                /\ resp.detail = "Stock insuficiente"
                /\ SinCambios )

C10_Witness ==
    /\ EsAgregar
    /\ resp.status = 400
    /\ CarritoAntes.items # <<>>
    /\ ExisteProducto(pre.productos, req.item.producto_id)
    /\ req.item.cantidad > ProductoPorId(pre.productos, req.item.producto_id).stock

\* C12: every order created by checkout has status "Completed".
C12_EstadoCompleted ==
    \A k \in 1..Len(db_pedidos) : db_pedidos[k].estado = "Completed"

\* C13: in every reachable state the order at position k of the order list
\* has id k, so the ids are unique, increase in creation order and are
\* exactly 1..n; a successful checkout gives its order the id (number of
\* orders before it) + 1.
C13_IdsDePedido ==
    /\ \A k \in 1..Len(db_pedidos) : db_pedidos[k].id = k
    /\ CheckoutOk =>
          /\ db_pedidos # <<>>
          /\ db_pedidos[Len(db_pedidos)].id = Len(pre.pedidos) + 1

C13_Witness ==
    /\ CheckoutOk
    /\ Len(db_pedidos) = 2
    /\ db_pedidos[1].id = 1
    /\ db_pedidos[2].id = 2

\* C14: in every reachable state every item of every cart has quantity >= 1.
C14_CantidadPositiva ==
    \A c \in 1..Len(db_carritos) :
        \A k \in 1..Len(db_carritos[c].items) :
            db_carritos[c].items[k].cantidad >= 1

EsDescontar == req.op = "descontar_stock_de_producto"
DescontarOk == EsDescontar /\ resp.status = 200
EsCrear     == req.op = "crear_nuevo_producto"

\* the last request changed the stock of a product that existed before it
StockCambiado ==
    \E k \in 1..Len(pre.productos) :
        \/ ~ExisteProducto(db_productos, pre.productos[k].id)
        \/ ProductoPorId(db_productos, pre.productos[k].id).stock
              # pre.productos[k].stock

\* C15 as stated: the stock of an existing product changes only in a
\* successful checkout step; every other operation leaves it unchanged.
C15_SoloCheckoutCambiaStock ==
    StockCambiado => CheckoutOk

\* C15 as amended: the stock of an existing product changes only in a
\* successful checkout step or in a successful explicit stock decrement
\* (PUT descontar-stock); list/get product, add-product, get cart, add-item
\* and list orders leave the stock of every existing product unchanged.
C15_StockCambiaSoloPorCheckoutODescuento ==
    StockCambiado => (CheckoutOk \/ DescontarOk)

C15_Witness ==
    /\ AgregarOk
    /\ req.item.cantidad > 0
    /\ pre.pedidos # <<>>
    /\ ~StockCambiado

\* C16: product ids are unique in every reachable state; add-product with
\* an id already present fails with Conflict and leaves the product list
\* unchanged; with a fresh id it appends exactly that product at the end
\* and leaves the existing products, the carts and the orders unchanged.
C16_IdsDeProductoUnicos ==
    /\ \A i, j \in 1..Len(db_productos) :
          i # j => db_productos[i].id # db_productos[j].id
    /\ EsCrear =>
          IF ExisteProducto(pre.productos, req.producto.id)
          THEN /\ resp.status = 400
               /\ resp.detail = "ID de producto ya existe"
               /\ SinCambios
          ELSE /\ resp.status = 201
               /\ Len(db_productos) = Len(pre.productos) + 1
               /\ db_productos[Len(db_productos)] = req.producto
               /\ SubSeq(db_productos, 1, Len(pre.productos)) = pre.productos
               /\ db_carritos = pre.carritos
               /\ db_pedidos = pre.pedidos

\* the second POST of the fresh id: the first one appended it
C16_Witness ==
    /\ EsCrear
    /\ req.producto.id = 4
    /\ resp.status = 400
    /\ Len(db_productos) = 4
    /\ db_productos[4] = req.producto

\* C17: nothing is deleted or re-priced: cart 1 exists in every reachable
\* state and the set of cart ids does not change; every product that
\* existed before a request exists after it with the same id, name and
\* price; the product list never has fewer than the 3 initial products.
C17_NadaSeBorra ==
    /\ ExisteCarrito(db_carritos, 1)
    /\ {db_carritos[k].id : k \in 1..Len(db_carritos)}
          = {pre.carritos[k].id : k \in 1..Len(pre.carritos)}
    /\ \A k \in 1..Len(pre.productos) :
          /\ ExisteProducto(db_productos, pre.productos[k].id)
          /\ ProductoPorId(db_productos, pre.productos[k].id).nombre
                = pre.productos[k].nombre
          /\ ProductoPorId(db_productos, pre.productos[k].id).precio
                = pre.productos[k].precio
    /\ Len(db_productos) >= 3

C17_Witness ==
    /\ CheckoutOk
    /\ Len(pre.productos) = 4
    /\ Len(db_productos) = 4
    /\ db_productos # pre.productos
    /\ db_carritos # pre.carritos

\* C18: a successful add-item keeps the order and content of all other
\* entries of the cart: a product already in the cart is updated at its
\* original position and the item count does not change; otherwise the new
\* entry is appended at the end and the count grows by one; other carts
\* are unchanged.
C18_AgregarPreservaOrden ==
    AgregarOk =>
        LET antes   == CarritoAntes.items
            despues == CarritoDespues.items
            pid     == req.item.producto_id
        IN  /\ IF \E k \in 1..Len(antes) : antes[k].producto_id = pid
               THEN /\ Len(despues) = Len(antes)
                    /\ \A k \in 1..Len(antes) :
                          /\ despues[k].producto_id = antes[k].producto_id
                          /\ antes[k].producto_id # pid => despues[k] = antes[k]
               ELSE /\ Len(despues) = Len(antes) + 1
                    /\ SubSeq(despues, 1, Len(antes)) = antes
                    /\ despues[Len(despues)] = req.item
            /\ Len(db_carritos) = Len(pre.carritos)
            /\ \A k \in 1..Len(db_carritos) :
                  db_carritos[k].id # req.carrito_id => db_carritos[k] = pre.carritos[k]

C18_Witness ==
    /\ AgregarOk
    /\ Len(CarritoAntes.items) >= 2
    /\ CarritoAntes.items[1].producto_id = req.item.producto_id
    /\ CarritoDespues.items[1].cantidad # CarritoAntes.items[1].cantidad

\* sum of frozen price * quantity over the items of an order, not rounded
TotalDeItemsDePedido(pedido) ==
    SumSeq([k \in 1..Len(pedido.items) |->
              pedido.items[k].precio_congelado * pedido.items[k].cantidad])

\* C19: every order in the order list is internally consistent: its total
\* is the sum over its own items of frozen price * quantity, rounded to 2
\* decimals.
C19_TotalDelPedido ==
    \A k \in 1..Len(db_pedidos) :
        EsRedondeoA2(db_pedidos[k].total_pedido, TotalDeItemsDePedido(db_pedidos[k]))

C19_Witness ==
    \E k \in 1..Len(db_pedidos) :
        /\ Len(db_pedidos[k].items) >= 2
        /\ db_pedidos[k].total_pedido # TotalDeItemsDePedido(db_pedidos[k])

\* C20: the explicit stock decrement fails with Not-Found for an absent
\* product and with insufficient-stock when stock < cantidad, changing
\* nothing in both cases; otherwise it sets that product's stock to old
\* stock - cantidad and leaves every other product, all carts and all
\* orders unchanged; it never makes a non-negative stock negative.
C20_DescontarStock ==
    EsDescontar =>
        /\ IF ~ExisteProducto(pre.productos, req.producto_id)
           THEN resp.status = 404 /\ SinCambios
           ELSE IF ProductoPorId(pre.productos, req.producto_id).stock < req.cantidad
           THEN resp.status = 400 /\ resp.detail = "Stock insuficiente" /\ SinCambios
           ELSE /\ resp.status = 200
                /\ Len(db_productos) = Len(pre.productos)
                /\ \A k \in 1..Len(pre.productos) :
                      IF pre.productos[k].id = req.producto_id
                      THEN db_productos[k] =
                              [pre.productos[k] EXCEPT !.stock = @ - req.cantidad]
                      ELSE db_productos[k] = pre.productos[k]
                /\ db_carritos = pre.carritos
                /\ db_pedidos = pre.pedidos
        /\ \A k \in 1..Len(pre.productos) :
              (k <= Len(db_productos) /\ pre.productos[k].stock >= 0)
                  => db_productos[k].stock >= 0

C20_Witness ==
    /\ DescontarOk
    /\ req.cantidad > 0
    /\ pre.carritos[1].items # <<>>
    /\ ProductoPorId(db_productos, req.producto_id).stock
          = ProductoPorId(pre.productos, req.producto_id).stock - req.cantidad

(* ---------------------------------------------------------------------- *)
(* Requests run one after another                                         *)
(* ---------------------------------------------------------------------- *)

\* what one writing route, run alone on the store, leaves and answers
\* (ahora is the reading of the clock)
Aplicar(store, request, ahora) ==
    LET queda(st, status, detail) ==
            [store |-> st, resp |-> [status |-> status, detail |-> detail]]
    IN  IF request.op = "crear_nuevo_producto" THEN
            IF fn_buscar_producto(store.productos, request.producto.id) # None
            THEN queda(store, 400, "ID de producto ya existe")
            ELSE queda([store EXCEPT !.productos =
                            fn_agregar_producto(store.productos, request.producto)],
                       201, "")
        ELSE IF request.op = "descontar_stock_de_producto" THEN
            LET producto == fn_buscar_producto(store.productos, request.producto_id)
            IN  IF producto = None THEN queda(store, 404, "Producto no encontrado")
                ELSE IF producto.stock < request.cantidad
                THEN queda(store, 400, "Stock insuficiente")
                ELSE queda([store EXCEPT !.productos =
                                fn_actualizar_stock(store.productos, request.producto_id,
                                                    request.cantidad)],
                           200, "")
        ELSE IF request.op = "agregar_item_al_carrito" THEN
            LET carrito_actual == fn_buscar_carrito(store.carritos, request.carrito_id)
                producto == fn_buscar_producto(store.productos, request.item.producto_id)
            IN  IF carrito_actual = None THEN queda(store, 404, "Carrito no encontrado")
                ELSE IF producto = None THEN queda(store, 404, "Producto no encontrado")
                ELSE IF producto.stock < request.item.cantidad
                THEN queda(store, 400, "Stock insuficiente")
                ELSE queda([store EXCEPT !.carritos =
                                fn_actualizar_carrito_en_db(store.carritos,
                                    fn_agregar_item_al_carrito(carrito_actual, request.item,
                                                               store.productos))],
                           200, "")
        ELSE
            LET carrito == fn_buscar_carrito(store.carritos, request.carrito_id)
            IN  IF carrito = None THEN queda(store, 404, "Carrito no encontrado")
                ELSE IF carrito.items = <<>> THEN queda(store, 400, "El carrito está vacío")
                ELSE queda([productos |->
                                fn_descontar_stock_de_pedido(store.productos, carrito),
                            pedidos |->
                                fn_agregar_pedido_a_db(store.pedidos,
                                    fn_convertir_carrito_a_pedido(carrito, store.productos,
                                        Len(store.pedidos) + 1, ahora)),
                            carritos |->
                                fn_actualizar_carrito_en_db(store.carritos,
                                                            fn_limpiar_carrito(carrito))],
                           200, "")

\* the store and the responses after the requests of the sequence have run
\* one after another, the first at clock reading ahora
RECURSIVE EnSerie(_, _, _)
EnSerie(store, requests, ahora) ==
    IF requests = <<>> THEN [store |-> store, resps |-> <<>>]
    ELSE LET uno   == Aplicar(store, Head(requests), ahora)
             resto == EnSerie(uno.store, Tail(requests), ahora + 1)
         IN  [store |-> resto.store, resps |-> <<uno.resp>> \o resto.resps]

\* every request that has arrived has been answered
TodasHechas ==
    \A t \in 1..Len(tareas) : tareas[t].estado = "hecho"

\* t and u were both waiting at some moment
Concurrentes(t, u) ==
    /\ t # u
    /\ tareas[t].llegada < tareas[u].orden
    /\ tareas[u].llegada < tareas[t].orden

ExitosDe(op) ==
    {t \in 1..Len(tareas) :
        /\ tareas[t].estado = "hecho"
        /\ tareas[t].request.op = op
        /\ tareas[t].resp.status \in {200, 201}}

\* the stock a product started with: the module's, or its POST body's
StockDeAlta(id) ==
    IF ExisteProducto(StoreInicial.productos, id)
    THEN ProductoPorId(StoreInicial.productos, id).stock
    ELSE (CHOOSE p \in NuevosProductos : p.id = id).stock

\* what the answered explicit decrements took off product id
RECURSIVE Descontado(_, _)
Descontado(ts, id) ==
    IF ts = {} THEN 0
    ELSE LET t == CHOOSE x \in ts : TRUE
         IN  (IF tareas[t].request.producto_id = id
              THEN tareas[t].request.cantidad ELSE 0)
             + Descontado(ts \ {t}, id)

\* what the orders took off product id
Vendido(id) ==
    SumSeq([k \in 1..Len(db_pedidos) |->
              SumSeq([i \in 1..Len(db_pedidos[k].items) |->
                        IF db_pedidos[k].items[i].producto_id = id
                        THEN db_pedidos[k].items[i].cantidad ELSE 0])])

\* C11: requests are serializable.  Whenever every request that arrived has
\* been answered, the store and every response are what running the
\* requests one after another in some order gives; of two concurrent
\* checkouts of the same cart that run back to back on a non-empty cart
\* the first creates the order and the second fails with Empty-Cart, so
\* there is one order per successful checkout; every answered stock
\* decrement and every order is reflected in the stock (no lost update).
C11_Serializable ==
    /\ (TodasHechas /\ tareas # <<>>) =>
          \E orden \in Permutations(1..Len(tareas)) :
              LET serie == EnSerie(StoreInicial,
                                   [i \in 1..Len(tareas) |-> tareas[orden[i]].request], 0)
              IN  /\ serie.store = Store
                  /\ \A i \in 1..Len(tareas) : serie.resps[i] = tareas[orden[i]].resp
    /\ \A t, u \in {x \in 1..Len(tareas) :
                       /\ tareas[x].estado = "hecho"
                       /\ tareas[x].request.op = "procesar_checkout_carrito"} :
          ( /\ Concurrentes(t, u)
            /\ tareas[t].request = tareas[u].request
            /\ tareas[u].orden = tareas[t].orden + 1
            /\ tareas[t].resp.status = 200 )
          => tareas[u].resp = [status |-> 400, detail |-> "El carrito está vacío"]
    /\ Len(db_pedidos) = Cardinality(ExitosDe("procesar_checkout_carrito"))
    /\ \A k \in 1..Len(db_productos) :
          db_productos[k].stock
             = StockDeAlta(db_productos[k].id)
                 - Descontado(ExitosDe("descontar_stock_de_producto"), db_productos[k].id)
                 - Vendido(db_productos[k].id)

\* the cart is filled, two checkouts of it arrive while it waits to be
\* checked out, and both have been answered
C11_Witness ==
    /\ TodasHechas
    /\ \E t, u \in 1..Len(tareas) :
          /\ Concurrentes(t, u)
          /\ tareas[t].request.op = "procesar_checkout_carrito"
          /\ tareas[u].request = tareas[t].request
          /\ tareas[t].resp.status = 200
          /\ tareas[u].resp.status = 400
          /\ tareas[t].llegada >= 1
          /\ tareas[u].llegada >= 1
    /\ Len(db_pedidos) = 1

====
